---- MODULE Spec2Model ----
(***************************************************************************)
(* Model of the partial-update handler updateProduct                       *)
(* (server/src/handlers/dummy_handler.ts) and of the products table it     *)
(* reads and writes.                                                       *)
(*                                                                         *)
(* A JavaScript object is a TLA+ function whose DOMAIN is the set of keys  *)
(* the object has: an omitted (undefined) request field is a key that is   *)
(* absent from the DOMAIN.  A number with decimals (price) is a natural    *)
(* number of thousandths; a string of digits is a sequence of one          *)
(* character strings.                                                      *)
(***************************************************************************)
EXTENDS Integers, Sequences, FiniteSets, TLC

\* ------------------------------------------------------------------------
\* Bounds of the model
\* ------------------------------------------------------------------------

\* stock_quantity values a request may carry are 0..MaxStock
MaxStock == 1

\* ------------------------------------------------------------------------
\* Values
\* ------------------------------------------------------------------------

\* description: z.string().nullable() -- explicit null or a text
Null == [isNull |-> TRUE]

Text(s) == [isNull |-> FALSE, text |-> s]

\* the id the tests use for a product that does not exist
nonExistentId == 999

\* ids a request may name: one stored product and one absent id
RequestIds == {1, nonExistentId}

Names == {"B", ""}

Descriptions == {Null, Text("e")}

\* prices in thousandths: 0.004, 0.005, 25.5 and 99.99
Prices == {4, 5, 25500, 99990}

Stocks == 0 .. MaxStock

\* errors the database client may throw from execute()
StoreErrors == {[type |-> "StoreError", message |-> "connection refused"]}

\* the object has the key (its value is not undefined)
Has(obj, key) == key \in DOMAIN obj

\* an object without keys
EmptyObject == [k \in {} |-> 0]

\* ------------------------------------------------------------------------
\* Numeric conversions
\* ------------------------------------------------------------------------

Digits == <<"0", "1", "2", "3", "4", "5", "6", "7", "8", "9">>

DigitChar(d) == Digits[d + 1]

CharVal(ch) == (CHOOSE i \in 1 .. 10 : Digits[i] = ch) - 1

RECURSIVE NatToDigits(_)
NatToDigits(n) ==
    IF n < 10 THEN <<DigitChar(n)>>
    ELSE NatToDigits(n \div 10) \o <<DigitChar(n % 10)>>

RECURSIVE DigitsToNat(_)
DigitsToNat(s) ==
    IF s = <<>> THEN 0
    ELSE DigitsToNat(SubSeq(s, 1, Len(s) - 1)) * 10 + CharVal(s[Len(s)])

RECURSIVE TrimZeros(_)
TrimZeros(s) ==
    IF s # <<>> /\ s[Len(s)] = "0" THEN TrimZeros(SubSeq(s, 1, Len(s) - 1))
    ELSE s

\* position of the decimal point, Len(s) + 1 when there is none
DotPos(s) ==
    IF \E i \in 1 .. Len(s) : s[i] = "."
    THEN CHOOSE i \in 1 .. Len(s) : s[i] = "."
    ELSE Len(s) + 1

\* the value of a decimal string in thousandths (digits after the third
\* decimal are dropped: no string of the model has them)
DecimalValue(s) ==
    LET dot  == DotPos(s)
        int  == SubSeq(s, 1, dot - 1)
        frac == SubSeq(s, dot + 1, Len(s))
        pad  == SubSeq(frac \o <<"0", "0", "0">>, 1, 3)
    IN DigitsToNat(int) * 1000 + DigitsToNat(pad)

\* as NumberToString, with the decimals dropped: toFixed(0) without rounding
NumberToStringWhole(p) == NatToDigits(p \div 1000)

\* Number.prototype.toString: the shortest decimal, no trailing zeros and
\* no decimal point for an integer
NumberToString(p) ==
    LET fr   == p % 1000
        frac == <<DigitChar(fr \div 100), DigitChar((fr \div 10) % 10),
                  DigitChar(fr % 10)>>
    IN IF fr = 0 THEN NatToDigits(p \div 1000)
       ELSE NatToDigits(p \div 1000) \o <<".">> \o TrimZeros(frac)

\* parseFloat of a decimal string
parseFloat(s) == DecimalValue(s)

\* the numeric column: the text written is rounded half up to two decimals
\* and read back with exactly two decimals
NumericColumn(s) ==
    LET cents == (DecimalValue(s) + 5) \div 10
        c     == cents % 100
    IN NatToDigits(cents \div 100) \o <<".">>
          \o <<DigitChar(c \div 10), DigitChar(c % 10)>>

\* ------------------------------------------------------------------------
\* Requests
\* ------------------------------------------------------------------------

NameParts == {EmptyObject} \cup {[name |-> n] : n \in Names}

DescriptionParts == {EmptyObject} \cup {[description |-> d] : d \in Descriptions}

PriceParts == {EmptyObject} \cup {[price |-> p] : p \in Prices}

StockParts == {EmptyObject} \cup {[stock_quantity |-> q] : q \in Stocks}

\* every UpdateProductInput the validator lets through, within the bounds
Inputs ==
    {[id |-> i] @@ n @@ d @@ p @@ q :
        i \in RequestIds, n \in NameParts, d \in DescriptionParts,
        p \in PriceParts, q \in StockParts}

\* the requests drawn when two calls overlap: name, description and one price
ConcurrentInputs ==
    {in \in Inputs : /\ Has(in, "price") => in.price = 99990
                     /\ ~Has(in, "stock_quantity")}

\* ------------------------------------------------------------------------
\* State
\* ------------------------------------------------------------------------

\* the callers that may have a call of updateProduct in flight
Callers == {1, 2}

VARIABLES
    products,   \* the rows of productsTable
    procs,      \* the callers that take part in this run
    pc,         \* per caller: where its call of updateProduct stands
    input,      \* per caller: the argument of its call
    toUpdate,   \* per caller: the object handed to .set()
    reply,      \* per caller: what execute() resolved or rejected with
    outcome,    \* per caller: how the promise of updateProduct settled
    logged,     \* per caller: the errors its call passed to console.error
    reads,      \* per caller: select statements its call issued
    writes,     \* per caller: update statements its call issued
    applied,    \* the callers whose update the store applied, in order
    lastPrice   \* per id: the price of the last update applied, 0 if none

vars == <<products, procs, pc, input, toUpdate, reply, outcome, logged,
          reads, writes, applied, lastPrice>>

\* the table as the tests set it up: ids and created_at given by the store
InitialProducts ==
    {[id |-> 1, name |-> "A", description |-> Text("d"),
      price |-> NumericColumn(NumberToString(50000)), stock_quantity |-> 10,
      created_at |-> 1001],
     [id |-> 2, name |-> "C", description |-> Null,
      price |-> NumericColumn(NumberToString(10000)), stock_quantity |-> 10,
      created_at |-> 1002]}

Pending == [status |-> "pending"]

NoReply == [status |-> "none"]

InitWith(ps) ==
    /\ products = InitialProducts
    /\ procs = ps
    /\ pc = [c \in Callers |-> "idle"]
    /\ input = [c \in Callers |-> EmptyObject]
    /\ toUpdate = [c \in Callers |-> EmptyObject]
    /\ reply = [c \in Callers |-> NoReply]
    /\ outcome = [c \in Callers |-> Pending]
    /\ logged = [c \in Callers |-> <<>>]
    /\ reads = [c \in Callers |-> 0]
    /\ writes = [c \in Callers |-> 0]
    /\ applied = <<>>
    /\ lastPrice = [i \in RequestIds |-> 0]

\* one caller: calls of updateProduct follow one another
Init == InitWith({1})

\* two callers: their calls may overlap
InitConcurrent == InitWith(Callers)

\* ------------------------------------------------------------------------
\* The handler
\* ------------------------------------------------------------------------

\* as BuildToUpdate, with the fields tested for truthiness: if (updateFields.x)
BuildToUpdateTruthy(in) ==
    (IF Has(in, "name") /\ in.name # "" THEN [name |-> in.name] ELSE EmptyObject)
    @@ (IF Has(in, "description") /\ in.description # Null
        THEN [description |-> in.description] ELSE EmptyObject)
    @@ (IF Has(in, "price") /\ in.price # 0
        THEN [price |-> NumberToString(in.price)] ELSE EmptyObject)
    @@ (IF Has(in, "stock_quantity") /\ in.stock_quantity # 0
        THEN [stock_quantity |-> in.stock_quantity] ELSE EmptyObject)

\* as BuildToUpdate, with description tested by != null, which null fails
BuildToUpdateLooseNull(in) ==
    (IF Has(in, "name") THEN [name |-> in.name] ELSE EmptyObject)
    @@ (IF Has(in, "description") /\ in.description # Null
        THEN [description |-> in.description] ELSE EmptyObject)
    @@ (IF Has(in, "price") THEN [price |-> NumberToString(in.price)]
        ELSE EmptyObject)
    @@ (IF Has(in, "stock_quantity")
        THEN [stock_quantity |-> in.stock_quantity] ELSE EmptyObject)

\* the object built from the defined fields of the request
BuildToUpdate(in) ==
    (IF Has(in, "name") THEN [name |-> in.name] ELSE EmptyObject)
    @@ (IF Has(in, "description") THEN [description |-> in.description]
        ELSE EmptyObject)
    @@ (IF Has(in, "price") THEN [price |-> NumberToString(in.price)]
        ELSE EmptyObject)
    @@ (IF Has(in, "stock_quantity")
        THEN [stock_quantity |-> in.stock_quantity] ELSE EmptyObject)

\* as NoKeys, with the test for an empty object never true
NoKeysNever(obj) == obj # obj

\* as NoKeys, with the length compared by >= 0
NoKeysAlways(obj) == Cardinality(DOMAIN obj) >= 0

\* Object.keys(toUpdate).length === 0
NoKeys(obj) == Cardinality(DOMAIN obj) = 0

\* new Error(`Product with ID ${id} not found.`)
NotFoundError(id) ==
    [type |-> "Error", message |-> "Product with ID ${id} not found.", id |-> id]

\* as ToProduct, with parseInt in place of parseFloat
ToProductParseInt(row) ==
    [row EXCEPT !.price = (parseFloat(row.price) \div 1000) * 1000]

\* { ...row, price: parseFloat(row.price) }
ToProduct(row) == [row EXCEPT !.price = parseFloat(row.price)]

\* as Catch, throwing a new error in place of the one caught
CatchWrap(c, error) ==
    /\ logged' = [logged EXCEPT ![c] = Append(@, error)]
    /\ outcome' = [outcome EXCEPT ![c] =
                      [status |-> "rejected",
                       reason |-> [type |-> "Error", message |-> "update failed"]]]

\* catch (error) { console.error(..., error); throw error; }
Catch(c, error) ==
    /\ logged' = [logged EXCEPT ![c] = Append(@, error)]
    /\ outcome' = [outcome EXCEPT ![c] = [status |-> "rejected", reason |-> error]]

Return(c, value) ==
    /\ outcome' = [outcome EXCEPT ![c] = [status |-> "fulfilled", value |-> value]]
    /\ UNCHANGED logged

\* ------------------------------------------------------------------------
\* The store
\* ------------------------------------------------------------------------

\* db.select().from(productsTable).where(eq(productsTable.id, id))
SelectWhereId(table, id) ==
    IF \E r \in table : r.id = id
    THEN <<CHOOSE r \in table : r.id = id>>
    ELSE <<>>

\* the value a column takes when v is written to it
ColumnValue(col, v) == IF col = "price" THEN NumericColumn(v) ELSE v

\* as SetColumns, with created_at set to the time of the update
SetColumnsTouch(row, set) ==
    [col \in DOMAIN row |->
        IF col \in DOMAIN set THEN ColumnValue(col, set[col])
        ELSE IF col = "created_at" THEN 2000 ELSE row[col]]

\* as SetColumns, writing the whole row: the columns that are not in set
\* from a copy of the row read when it was created
SetColumnsStale(row, set) ==
    [col \in DOMAIN row |->
        IF col \in DOMAIN set THEN ColumnValue(col, set[col])
        ELSE (CHOOSE r \in InitialProducts : r.id = row.id)[col]]

\* the row after SET of the keys of set
SetColumns(row, set) ==
    [col \in DOMAIN row |->
        IF col \in DOMAIN set THEN ColumnValue(col, set[col]) ELSE row[col]]

\* as UpdateWhereId, inserting the row when none matches (an upsert)
UpdateWhereIdUpsert(table, set, id) ==
    IF \E r \in table : r.id = id
    THEN {IF r.id = id THEN SetColumns(r, set) ELSE r : r \in table}
    ELSE table \cup {[id |-> id, name |-> "", description |-> Null,
                      price |-> NumericColumn(<<"0">>), stock_quantity |-> 0,
                      created_at |-> 1003]}

\* db.update(productsTable).set(set).where(eq(productsTable.id, id))
UpdateWhereId(table, set, id) ==
    {IF r.id = id THEN SetColumns(r, set) ELSE r : r \in table}

\* ------------------------------------------------------------------------
\* Actions
\* ------------------------------------------------------------------------

RequestsOf(ps) == IF Cardinality(ps) = 1 THEN Inputs ELSE ConcurrentInputs

\* updateProduct(in) runs up to its first await: it builds toUpdate and
\* issues the select or the update
Invoke(c, in) ==
    /\ pc[c] = "idle"
    /\ input' = [input EXCEPT ![c] = in]
    /\ toUpdate' = [toUpdate EXCEPT ![c] = BuildToUpdate(in)]
    /\ IF NoKeys(BuildToUpdate(in))
       THEN /\ pc' = [pc EXCEPT ![c] = "select"]
            /\ reads' = [reads EXCEPT ![c] = @ + 1]
            /\ UNCHANGED writes
       ELSE /\ pc' = [pc EXCEPT ![c] = "update"]
            /\ writes' = [writes EXCEPT ![c] = @ + 1]
            /\ UNCHANGED reads
    /\ UNCHANGED <<products, procs, reply, outcome, logged, applied, lastPrice>>

\* the store runs the select of caller c
SelectExecute(c) ==
    /\ pc[c] = "select"
    /\ pc' = [pc EXCEPT ![c] = "selected"]
    /\ reply' = [reply EXCEPT ![c] =
                    [status |-> "rows", rows |-> SelectWhereId(products, input[c].id)]]
    /\ UNCHANGED <<products, procs, input, toUpdate, outcome, logged, reads,
                   writes, applied, lastPrice>>

\* the store runs the update ... returning of caller c as one statement
UpdateExecute(c) ==
    /\ pc[c] = "update"
    /\ pc' = [pc EXCEPT ![c] = "updated"]
    /\ products' = UpdateWhereId(products, toUpdate[c], input[c].id)
    /\ reply' = [reply EXCEPT ![c] =
                    [status |-> "rows", rows |-> SelectWhereId(products', input[c].id)]]
    /\ applied' = IF SelectWhereId(products, input[c].id) # <<>>
                  THEN Append(applied, c) ELSE applied
    /\ lastPrice' = IF SelectWhereId(products, input[c].id) # <<>>
                       /\ Has(input[c], "price")
                    THEN [lastPrice EXCEPT ![input[c].id] = input[c].price]
                    ELSE lastPrice
    /\ UNCHANGED <<procs, input, toUpdate, outcome, logged, reads, writes>>

\* the statement of caller c fails in the store: execute() rejects
StoreFail(c, e) ==
    /\ pc[c] \in {"select", "update"}
    /\ pc' = [pc EXCEPT ![c] = IF pc[c] = "select" THEN "selected" ELSE "updated"]
    /\ reply' = [reply EXCEPT ![c] = [status |-> "error", error |-> e]]
    /\ UNCHANGED <<products, procs, input, toUpdate, outcome, logged, reads,
                   writes, applied, lastPrice>>

\* the call resumes after the awaited select
ResumeSelect(c) ==
    /\ pc[c] = "selected"
    /\ pc' = [pc EXCEPT ![c] = "done"]
    /\ IF reply[c].status = "error" THEN Catch(c, reply[c].error)
       ELSE IF Len(reply[c].rows) = 0 THEN Catch(c, NotFoundError(input[c].id))
       ELSE Return(c, ToProduct(reply[c].rows[1]))
    /\ UNCHANGED <<products, procs, input, toUpdate, reply, reads, writes,
                   applied, lastPrice>>

\* the call resumes after the awaited update
ResumeUpdate(c) ==
    /\ pc[c] = "updated"
    /\ pc' = [pc EXCEPT ![c] = "done"]
    /\ IF reply[c].status = "error" THEN Catch(c, reply[c].error)
       ELSE IF Len(reply[c].rows) = 0 THEN Catch(c, NotFoundError(input[c].id))
       ELSE Return(c, ToProduct(reply[c].rows[1]))
    /\ UNCHANGED <<products, procs, input, toUpdate, reply, reads, writes,
                   applied, lastPrice>>

\* the callers take the settled promises; their slots are free again
Collect ==
    /\ \E c \in procs : pc[c] = "done"
    /\ \A c \in procs : pc[c] \in {"idle", "done"}
    /\ pc' = [c \in Callers |-> "idle"]
    /\ input' = [c \in Callers |-> EmptyObject]
    /\ toUpdate' = [c \in Callers |-> EmptyObject]
    /\ reply' = [c \in Callers |-> NoReply]
    /\ outcome' = [c \in Callers |-> Pending]
    /\ logged' = [c \in Callers |-> <<>>]
    /\ reads' = [c \in Callers |-> 0]
    /\ writes' = [c \in Callers |-> 0]
    /\ applied' = <<>>
    /\ UNCHANGED <<products, procs, lastPrice>>

Next ==
    \/ \E c \in procs : \E in \in RequestsOf(procs) : Invoke(c, in)
    \/ \E c \in procs : SelectExecute(c)
    \/ \E c \in procs : UpdateExecute(c)
    \/ \E c \in procs : \E e \in StoreErrors : StoreFail(c, e)
    \/ \E c \in procs : ResumeSelect(c)
    \/ \E c \in procs : ResumeUpdate(c)
    \/ Collect

Spec == Init /\ [][Next]_vars

SpecConcurrent == InitConcurrent /\ [][Next]_vars

\* ------------------------------------------------------------------------
\* Vocabulary of the properties
\* ------------------------------------------------------------------------

ProductIds(table) == {r.id : r \in table}

RowWithId(table, id) == CHOOSE r \in table : r.id = id

\* the optional fields a request supplies
SuppliedFields(in) == DOMAIN in \ {"id"}

\* half a unit of the second decimal, in thousandths
WithinPrecision(a, b) == a - b <= 5 /\ b - a <= 5

\* the text of a numeric column: digits, a point and two decimals
IsFixedPoint(s) == Len(s) >= 4 /\ DotPos(s) = Len(s) - 2

\* the stored column holds the requested value (a price in its encoding)
StoredAs(col, stored, requested) ==
    IF col = "price"
    THEN IsFixedPoint(stored) /\ WithinPrecision(DecimalValue(stored), requested)
    ELSE stored = requested

\* value is row with its price turned into a number
Decodes(value, row) ==
    /\ DOMAIN value = DOMAIN row
    /\ value.price = DecimalValue(row.price)
    /\ \A col \in DOMAIN row \ {"price"} : value[col] = row[col]

\* the step in which the store applies the update of caller c
WriteStep(c) ==
    pc[c] = "update" /\ pc'[c] = "updated" /\ reply'[c].status = "rows"

\* the step changes the row of the request of caller c in the supplied
\* fields only, and no other row
FrameOf(c) ==
    /\ ProductIds(products') = ProductIds(products)
    /\ Cardinality(products') = Cardinality(products)
    /\ \A r \in products :
          LET r2 == RowWithId(products', r.id)
          IN IF r.id = input[c].id
             THEN /\ DOMAIN r2 = DOMAIN r
                  /\ \A col \in DOMAIN r :
                        IF col \in SuppliedFields(input[c])
                        THEN StoredAs(col, r2[col], input[c][col])
                        ELSE r2[col] = r[col]
             ELSE r2 = r

\* the table changes only in the write step of a call, and then by FrameOf
StoreStep ==
    \/ products' = products
    \/ \E c \in procs : WriteStep(c) /\ FrameOf(c)

\* the call of caller c has settled
Done(c) == pc[c] = "done"

Fulfilled(c) == Done(c) /\ outcome[c].status = "fulfilled"

Rejected(c) == Done(c) /\ outcome[c].status = "rejected"

\* ------------------------------------------------------------------------
\* C1
\* ------------------------------------------------------------------------

C1Stored ==
    \A c \in procs :
        (Fulfilled(c) /\ SuppliedFields(input[c]) # {}) =>
            LET row == RowWithId(products, input[c].id)
            IN \A col \in SuppliedFields(input[c]) :
                  StoredAs(col, row[col], input[c][col])

\* C1: when calls follow one another, a call on an existing id that supplies
\* some of name, description, price, stock_quantity leaves the stored row
\* with exactly the supplied fields replaced by the request's values (the
\* price in the column's encoding); every other field, id and created_at
\* and every other row keep their value.  Falsy values count as supplied.
C1_OnlySuppliedFieldsChange == [](C1Stored) /\ [][StoreStep]_vars

C1_Witness ==
    /\ Fulfilled(1)
    /\ SuppliedFields(input[1]) = {"name", "description", "stock_quantity"}
    /\ input[1].name = "" /\ input[1].description = Null
    /\ input[1].stock_quantity = 0
    /\ LET row == RowWithId(products, 1)
       IN row.name = "" /\ row.description = Null /\ row.stock_quantity = 0
          /\ row.price = <<"5", "0", ".", "0", "0">> /\ row.created_at = 1001

\* ------------------------------------------------------------------------
\* C2
\* ------------------------------------------------------------------------

C2Returned ==
    \A c \in procs :
        (Done(c) /\ SuppliedFields(input[c]) = {}
           /\ input[c].id \in ProductIds(products) /\ reply[c].status = "rows") =>
            /\ outcome[c].status = "fulfilled"
            /\ Decodes(outcome[c].value, RowWithId(products, input[c].id))
            /\ writes[c] = 0

C2NoWrite ==
    \A c \in procs :
        (pc'[c] \notin {"idle", pc[c]} /\ SuppliedFields(input'[c]) = {}) =>
            products' = products

\* C2: when calls follow one another, a call with all four optional fields
\* omitted on an existing id returns the stored row as it was before the
\* call (its price as a number), issues no write and leaves the table as it
\* was.
C2_NoFieldsReturnsStored == [](C2Returned) /\ [][C2NoWrite]_vars

C2_Witness ==
    /\ Fulfilled(1) /\ input[1] = [id |-> 1]
    /\ products # InitialProducts
    /\ outcome[1].value.name = RowWithId(products, 1).name
    /\ reads[1] = 1 /\ writes[1] = 0

\* ------------------------------------------------------------------------
\* C3
\* ------------------------------------------------------------------------

C3Rejected ==
    \A c \in procs :
        (Done(c) /\ input[c].id \notin ProductIds(products)) =>
            /\ outcome[c].status = "rejected"
            /\ reply[c].status = "rows" =>
                  /\ outcome[c].reason.type = "Error"
                  /\ outcome[c].reason.id = input[c].id

C3NoChange ==
    \A c \in procs :
        (pc'[c] \notin {"idle", pc[c]} /\ input'[c].id \notin ProductIds(products)) =>
            products' = products

\* C3: a call whose id is not in the table, whatever fields it supplies,
\* fails with the not-found error that carries that id, returns no record
\* and leaves the table as it was: no row is created, none is changed.
C3_MissingIdFails == [](C3Rejected) /\ [][C3NoChange]_vars

C3_Witness ==
    /\ Rejected(1) /\ input[1].id = nonExistentId
    /\ SuppliedFields(input[1]) = {"name", "price"}
    /\ outcome[1].reason.id = nonExistentId
    /\ writes[1] = 1
    /\ nonExistentId \notin ProductIds(products)

\* ------------------------------------------------------------------------
\* C4
\* ------------------------------------------------------------------------

C4Stored ==
    \A c \in procs :
        (Fulfilled(c) /\ Has(input[c], "description")) =>
            /\ Has(toUpdate[c], "description")
            /\ toUpdate[c].description = input[c].description
            /\ RowWithId(products, input[c].id).description = input[c].description

C4Step ==
    \A c \in procs :
        (pc'[c] \notin {"idle", pc[c]} /\ input'[c].id \in ProductIds(products)) =>
            LET old == RowWithId(products, input'[c].id).description
                new == RowWithId(products', input'[c].id).description
            IN IF WriteStep(c) /\ Has(input[c], "description")
               THEN /\ new = input[c].description
                    /\ (input[c].description = Null /\ old # Null) => new # old
               ELSE new = old

\* C4: when calls follow one another, an omitted description leaves the
\* stored description as it was, an explicit null is in the change-set and
\* stores null, and a text stores that text; on a row with a description,
\* null and omitted end in different rows.
C4_NullIsNotOmitted == [](C4Stored) /\ [][C4Step]_vars

C4_Witness ==
    /\ Fulfilled(1) /\ input[1] = [id |-> 1, description |-> Null]
    /\ toUpdate[1] = [description |-> Null]
    /\ RowWithId(products, 1).description = Null
    /\ outcome[1].value.description = Null
    /\ RowWithId(products, 1).name = "A"

\* ------------------------------------------------------------------------
\* C5
\* ------------------------------------------------------------------------

\* C5: when calls follow one another, the record a call with a non-empty
\* change-set on an existing id returns is the stored row as the write of
\* the call left it: the supplied fields have the request's values, the
\* others the stored ones, and the call issued one update and no select.
C5_ReturnsWrittenRow ==
    \A c \in procs :
        (Fulfilled(c) /\ SuppliedFields(input[c]) # {}) =>
            /\ Decodes(outcome[c].value, RowWithId(products, input[c].id))
            /\ \A col \in SuppliedFields(input[c]) :
                  IF col = "price"
                  THEN WithinPrecision(outcome[c].value.price, input[c].price)
                  ELSE outcome[c].value[col] = input[c][col]
            /\ reads[c] = 0 /\ writes[c] = 1

C5_Witness ==
    /\ Fulfilled(1)
    /\ input[1] = [id |-> 1, name |-> "B", description |-> Text("e"),
                   price |-> 99990, stock_quantity |-> 1]
    /\ outcome[1].value = [id |-> 1, name |-> "B", description |-> Text("e"),
                           price |-> 99990, stock_quantity |-> 1,
                           created_at |-> 1001]
    /\ RowWithId(products, 1).price = <<"9", "9", ".", "9", "9">>

\* ------------------------------------------------------------------------
\* C6
\* ------------------------------------------------------------------------

\* C6: a call issues at most one select and at most one update and never
\* both: one select and no update when the request supplies no field, one
\* update and no select when it supplies some.
C6_OneStoreOperation ==
    \A c \in procs :
        /\ reads[c] <= 1 /\ writes[c] <= 1 /\ reads[c] + writes[c] <= 1
        /\ pc[c] # "idle" =>
              IF SuppliedFields(input[c]) = {}
              THEN reads[c] = 1 /\ writes[c] = 0
              ELSE reads[c] = 0 /\ writes[c] = 1

C6_Witness ==
    /\ Done(1) /\ Done(2)
    /\ SuppliedFields(input[1]) = {} /\ reads[1] = 1 /\ writes[1] = 0
    /\ SuppliedFields(input[2]) # {} /\ reads[2] = 0 /\ writes[2] = 1

\* ------------------------------------------------------------------------
\* C7
\* ------------------------------------------------------------------------

Keys(table) == {<<r.id, r.created_at>> : r \in table}

\* C7: after any calls, overlapping or not, succeeding or failing, the table
\* has the ids it started with, one row each, and every row has its first
\* created_at.
C7_IdsAndCreatedAtKept ==
    /\ Keys(products) = Keys(InitialProducts)
    /\ Cardinality(products) = Cardinality(InitialProducts)

C7_Witness ==
    /\ Fulfilled(1) /\ Rejected(2)
    /\ input[2].id = nonExistentId /\ SuppliedFields(input[2]) # {}
    /\ RowWithId(products, 1).name = "B"
    /\ RowWithId(products, 1).description = Null
    /\ RowWithId(products, 1).created_at = 1001

\* ------------------------------------------------------------------------
\* C8
\* ------------------------------------------------------------------------

\* C8: a call whose select or update fails in the store, or finds no row,
\* logs the error once and rejects with that very error; it issues no
\* second store operation and has no value.
C8_ErrorsLoggedAndRethrown ==
    \A c \in procs :
        Done(c) =>
            /\ reply[c].status = "error" =>
                  /\ outcome[c] = [status |-> "rejected", reason |-> reply[c].error]
                  /\ logged[c] = <<reply[c].error>>
                  /\ reads[c] + writes[c] = 1
            /\ (reply[c].status = "rows" /\ reply[c].rows = <<>>) =>
                  /\ DOMAIN outcome[c] = {"status", "reason"}
                  /\ outcome[c].status = "rejected"
                  /\ outcome[c].reason.type = "Error"
                  /\ outcome[c].reason.id = input[c].id
                  /\ logged[c] = <<outcome[c].reason>>
                  /\ reads[c] + writes[c] = 1
            /\ outcome[c].status = "fulfilled" => logged[c] = <<>>

C8_Witness ==
    /\ Rejected(1) /\ reply[1].status = "error" /\ writes[1] = 1
    /\ outcome[1].reason \in StoreErrors
    /\ logged[1] = <<outcome[1].reason>>
    /\ Rejected(2) /\ reply[2].status = "rows" /\ reads[2] = 1
    /\ outcome[2].reason.id = nonExistentId

\* ------------------------------------------------------------------------
\* C9
\* ------------------------------------------------------------------------

\* C9: when calls follow one another, a price supplied to a call that
\* succeeds is stored as fixed-point text, and the price of the returned
\* record and the price a later call without fields returns for that id are
\* within half a unit of the last stored decimal of the supplied price.
C9_PriceRoundTrip ==
    /\ \A r \in products :
          (r.id \in DOMAIN lastPrice /\ lastPrice[r.id] # 0) =>
              /\ IsFixedPoint(r.price)
              /\ WithinPrecision(DecimalValue(r.price), lastPrice[r.id])
    /\ \A c \in procs :
          /\ (Fulfilled(c) /\ Has(input[c], "price")) =>
                WithinPrecision(outcome[c].value.price, input[c].price)
          /\ (Fulfilled(c) /\ SuppliedFields(input[c]) = {}
                /\ lastPrice[input[c].id] # 0) =>
                WithinPrecision(outcome[c].value.price, lastPrice[input[c].id])

C9_Witness ==
    /\ Fulfilled(1) /\ input[1] = [id |-> 1]
    /\ lastPrice[1] = 25500
    /\ RowWithId(products, 1).price = <<"2", "5", ".", "5", "0">>
    /\ outcome[1].value.price = 25500

\* ------------------------------------------------------------------------
\* C10
\* ------------------------------------------------------------------------

C10LastWriteWins ==
    \A f \in {"name", "description", "price", "stock_quantity"} :
        LET Supplies(c) == Has(input[c], f)
            writers == SelectSeq(applied, Supplies)
        IN writers # <<>> =>
              LET last == writers[Len(writers)]
              IN StoredAs(f, RowWithId(products, input[last].id)[f], input[last][f])

\* C10: when two calls on one existing id overlap, each update is one step
\* of the store that sets the fields of its own change-set and no other;
\* so a field only one call supplies holds that call's value and a field
\* both supply holds the value of the update the store applied last.
C10_ConcurrentUpdatesMerge == [](C10LastWriteWins) /\ [][StoreStep]_vars

C10_Witness ==
    /\ pc[2] = "updated" /\ Fulfilled(1) /\ applied = <<2, 1>>
    /\ input[2] = [id |-> 1, name |-> "", description |-> Null]
    /\ input[1] = [id |-> 1, name |-> "B", price |-> 99990]
    /\ LET row == RowWithId(products, 1)
       IN /\ row.name = "B" /\ row.description = Null
          /\ row.price = <<"9", "9", ".", "9", "9">> /\ row.stock_quantity = 10

====
